---- MODULE Spec2Model ----
(***************************************************************************)
(* Sales profitability wizard (sales.profitability.wizard): the order      *)
(* filter, the per-line cost resolver, the profitability aggregator and    *)
(* the three wizard operations (generate report, export to Excel, print).  *)
(*                                                                         *)
(* Money and quantities are integers; a percentage is kept as an exact     *)
(* fraction [num, den], so that a division by zero shows as den = 0.       *)
(***************************************************************************)
EXTENDS Integers, Sequences, FiniteSets

VARIABLES
    sale_order,   \* the sale.order records, in the store's retrieval order
    wiz,          \* the wizard record: filter fields, options and result fields
    ret           \* what the last call returned or raised

vars == <<sale_order, wiz, ret>>

----------------------------------------------------------------------------
\* Bounds of the model.

MaxMoves == 2        \* stock moves of an order line (cost resolver inputs)
MaxLayers == 2       \* valuation layers of an order line, over all its moves
MaxLines == 3        \* order lines in the whole store (aggregator inputs)
MaxOrders == 2       \* orders in the store (aggregator and wizard inputs)
MaxFilterOrders == 1 \* orders in the store (order filter inputs)

----------------------------------------------------------------------------
\* Generic helpers.

RECURSIVE SeqsUpTo(_, _)
SeqsUpTo(S, n) ==
    IF n = 0 THEN {<<>>}
    ELSE LET shorter == SeqsUpTo(S, n - 1)
         IN  shorter \cup {Append(s, x) : s \in {t \in shorter : Len(t) = n - 1}, x \in S}

\* Every way to fill n lists from S with at most t elements in all.
RECURSIVE Lists(_, _, _)
Lists(S, n, t) ==
    IF n = 0 THEN {<<>>}
    ELSE UNION {{<<l>> \o rest : rest \in Lists(S, n - 1, t - Len(l))} :
                    l \in SeqsUpTo(S, t)}

\* Python's sum() over a list of numbers.
RECURSIVE sum(_)
sum(s) == IF s = <<>> THEN 0 ELSE Head(s) + sum(Tail(s))

\* The sum of a function's values over its (finite) domain.
RECURSIVE FnSum(_)
FnSum(f) ==
    IF DOMAIN f = {} THEN 0
    ELSE LET x == CHOOSE y \in DOMAIN f : TRUE
         IN  f[x] + FnSum([y \in (DOMAIN f) \ {x} |-> f[y]])

\* An empty field (False) and a field holding a value.
Unset == [set |-> FALSE]
Value(v) == [set |-> TRUE, value |-> v]

----------------------------------------------------------------------------
\* The records the wizard reads from the order / inventory store.

Categs == {1, 2}
categ_name == [c \in Categs |-> IF c = 1 THEN "All" ELSE "Saleable"]

ProductIds == {1, 2, 3}
\* product.product: a storable product of each category and a service.
product ==
    [p \in ProductIds |->
        CASE p = 1 -> [name |-> "Desk", default_code |-> Value("D-1"), type |-> "consu",
                       categ_id |-> 1, standard_price |-> 10]
          [] p = 2 -> [name |-> "Setup", default_code |-> Value("S-1"), type |-> "service",
                       categ_id |-> 1, standard_price |-> 5]
          [] p = 3 -> [name |-> "Lamp", default_code |-> Unset, type |-> "consu",
                       categ_id |-> 2, standard_price |-> 0]]

\* landed_cost_value of a line: the field may not exist on the model
\* (hasattr false), exist and be empty (False), or hold a value.
NoLanded == [hasattr |-> FALSE, set |-> FALSE, value |-> 0]
EmptyLanded == [hasattr |-> TRUE, set |-> FALSE, value |-> 0]
Landed(v) == [hasattr |-> TRUE, set |-> TRUE, value |-> v]
LandedValues == {NoLanded, EmptyLanded, Landed(5)}

\* stock.move with its stock.valuation.layer values.
MoveStates == {"done", "cancel"}
LayerValues == {-3, 4}
\* Every recordset of at most n moves holding at most t layers in all.
MoveLists(n, t) ==
    UNION {{[i \in 1..k |-> [state |-> st[i], stock_valuation_layer_ids |-> ll[i]]] :
                st \in [1..k -> MoveStates], ll \in Lists(LayerValues, k, t)} :
           k \in 0..n}

Qtys == {1, 2}

\* A sale.order.line.
Line(p, deliv, qty, sub, tot, landed, moves) ==
    [product_id |-> p, is_delivery |-> deliv, product_uom_qty |-> qty,
     price_unit |-> sub, price_subtotal |-> sub, price_total |-> tot,
     landed_cost_value |-> landed, move_ids |-> moves, product_uom |-> "Units"]

----------------------------------------------------------------------------
\* Cost Resolver.

\* the valuation part: for move in move_ids.filtered(state == 'done'):
\*     if move.stock_valuation_layer_ids: total += sum(mapped('value'))
RECURSIVE valuation_cost(_)
valuation_cost(moves) ==
    IF moves = <<>> THEN 0
    ELSE LET move == Head(moves)
         IN  (IF move.state = "done" /\ move.stock_valuation_layer_ids # <<>>
                 THEN sum(move.stock_valuation_layer_ids) ELSE 0)
             + valuation_cost(Tail(moves))

\* The cost with the moves' state ignored.
_calculate_order_costs_all_moves(order_line) ==
    product[order_line.product_id].standard_price * order_line.product_uom_qty
    + (IF order_line.landed_cost_value.hasattr /\ order_line.landed_cost_value.set
          THEN order_line.landed_cost_value.value ELSE 0)
    + sum([i \in 1..Len(order_line.move_ids) |->
              sum(order_line.move_ids[i].stock_valuation_layer_ids)])

_calculate_order_costs(order_line) ==
    LET product_cost == product[order_line.product_id].standard_price
        base == product_cost * order_line.product_uom_qty
        landed == IF order_line.landed_cost_value.hasattr
                     THEN (IF order_line.landed_cost_value.set
                              THEN order_line.landed_cost_value.value ELSE 0)
                     ELSE 0
        moves == IF order_line.move_ids # <<>>
                    THEN valuation_cost(order_line.move_ids) ELSE 0
    IN  base + landed + moves

----------------------------------------------------------------------------
\* The order store and the wizard record.

Partners == {1, 2}
partner_name == [p \in Partners |-> IF p = 1 THEN "Azure" ELSE "Birch"]
Companies == {1, 2}
Days == {1, 2}
\* Time of day of a datetime: 0 is 00:00:00, EndOfDay is 23:59:59.
EndOfDay == 1
DayTimes == {0, EndOfDay}
DateTimes == [day : Days, time : DayTimes]
OrderStates == {"draft", "sale", "done"}

\* A plain storable line: quantity 2 at standard cost 10, 100 before tax, 110 with.
PlainLine == Line(1, FALSE, 2, 100, 110, NoLanded, <<>>)

\* A sale.order as the store holds it, before the store numbers it.
Order(partner, date_order, state, company, lines) ==
    [partner_id |-> partner, date_order |-> date_order, state |-> state,
     company_id |-> company, currency |-> "USD", order_line |-> lines]

\* The store numbers its records: the i-th record has id i and name <<"S", i>>.
Stored(s) ==
    [i \in 1..Len(s) |->
        [id |-> i, name |-> <<"S", i>>, partner_id |-> s[i].partner_id,
         date_order |-> s[i].date_order, state |-> s[i].state,
         company_id |-> s[i].company_id, currency |-> s[i].currency,
         order_line |-> s[i].order_line]]

\* A new wizard record: the filter fields and options as given, no results yet.
\* company 0 is an empty company_id.
Wizard(date_from, date_to, partners, categories, company, group_by, details, taxes) ==
    [id |-> 1, date_from |-> date_from, date_to |-> date_to,
     partner_ids |-> partners, category_ids |-> categories, company_id |-> company,
     group_by |-> group_by, show_details |-> details, include_taxes |-> taxes,
     report_data |-> Unset, excel_file |-> Unset, excel_filename |-> Unset]

NoCall == [kind |-> "none"]

----------------------------------------------------------------------------
\* Order Filter.

\* The domain with only the state 'sale'.
_get_domain_filters_sale_only(w) ==
    LET domain == << <<"state", "in", {"sale"}>>,
                     <<"date_order", ">=", w.date_from>>,
                     <<"date_order", "<=", w.date_to>>,
                     <<"company_id", "=", w.company_id>> >>
    IN  IF w.partner_ids # {}
           THEN Append(domain, <<"partner_id", "in", w.partner_ids>>)
           ELSE domain

_get_domain_filters(w) ==
    LET domain == << <<"state", "in", {"sale", "done"}>>,
                     <<"date_order", ">=", w.date_from>>,
                     <<"date_order", "<=", w.date_to>>,
                     <<"company_id", "=", w.company_id>> >>
    IN  IF w.partner_ids # {}
           THEN Append(domain, <<"partner_id", "in", w.partner_ids>>)
           ELSE domain

\* A datetime field compared with a date: the date stands for its first
\* instant under >= and for its last instant under <=.
DateTimeLeq(a, b) == a.day < b.day \/ (a.day = b.day /\ a.time <= b.time)

matches_leaf(o, leaf) ==
    CASE leaf[1] = "state" -> o.state \in leaf[3]
      [] leaf[1] = "date_order" /\ leaf[2] = ">=" ->
            DateTimeLeq([day |-> leaf[3], time |-> 0], o.date_order)
      [] leaf[1] = "date_order" /\ leaf[2] = "<=" ->
            DateTimeLeq(o.date_order, [day |-> leaf[3], time |-> EndOfDay])
      [] leaf[1] = "company_id" -> o.company_id = leaf[3]
      [] leaf[1] = "partner_id" -> o.partner_id \in leaf[3]

\* env['sale.order'].search(domain): the records matching every leaf, in
\* the store's retrieval order.
RECURSIVE search(_, _)
search(store, domain) ==
    IF store = <<>> THEN <<>>
    ELSE LET o == Head(store)
             rest == search(Tail(store), domain)
         IN  IF \A i \in 1..Len(domain) : matches_leaf(o, domain[i])
                THEN <<o>> \o rest ELSE rest

----------------------------------------------------------------------------
\* Profitability Aggregator.

Raise(exc, msg) == [kind |-> "raise", exc |-> exc, msg |-> msg]
Return(v) == [kind |-> "return", value |-> v]

NoOrdersMsg == <<"No sales orders found for the selected criteria.">>

\* The line tests without the category filter.
skip_line_any_category(w, line) ==
    line.is_delivery \/ product[line.product_id].type = "service"

\* The two `continue` tests of the line loop.
skip_line(w, line) ==
    \/ line.is_delivery \/ product[line.product_id].type = "service"
    \/ (w.category_ids # {} /\ product[line.product_id].categ_id \notin w.category_ids)

\* The percentage without the zero-revenue guard.
line_margin_percent_unguarded(line_margin, line_revenue) ==
    [num |-> line_margin * 100, den |-> line_revenue]

\* (margin / revenue * 100) if revenue else 0.0, as an exact fraction.
line_margin_percent(line_margin, line_revenue) ==
    IF line_revenue # 0 THEN [num |-> line_margin * 100, den |-> line_revenue]
    ELSE [num |-> 0, den |-> 1]

line_data(w, line) ==
    LET line_revenue == IF w.include_taxes THEN line.price_total ELSE line.price_subtotal
        line_cost == _calculate_order_costs(line)
        line_margin == line_revenue - line_cost
    IN  [product_name |-> product[line.product_id].name,
         product_code |-> IF product[line.product_id].default_code.set
                            THEN product[line.product_id].default_code.value ELSE "",
         category |-> categ_name[product[line.product_id].categ_id],
         quantity |-> line.product_uom_qty,
         unit_price |-> line.price_unit,
         revenue |-> line_revenue,
         cost |-> line_cost,
         margin |-> line_margin,
         margin_percent |-> line_margin_percent(line_margin, line_revenue),
         uom |-> line.product_uom]

\* The accumulation with the cost total left out.
add_line_without_cost(order_data, ld) ==
    [order_data EXCEPT
        !.lines = Append(@, ld),
        !.totals = [@ EXCEPT !.revenue = @ + ld.revenue, !.margin = @ + ld.margin]]

\* order_data['lines'].append(line_data) and the three += on the totals.
add_line(order_data, ld) ==
    [order_data EXCEPT
        !.lines = Append(@, ld),
        !.totals = [@ EXCEPT !.revenue = @ + ld.revenue,
                             !.cost = @ + ld.cost,
                             !.margin = @ + ld.margin]]

\* for line in order.order_line: ...
RECURSIVE process_lines(_, _, _)
process_lines(w, lines, order_data) ==
    IF lines = <<>> THEN order_data
    ELSE IF skip_line(w, Head(lines))
            THEN process_lines(w, Tail(lines), order_data)
            ELSE process_lines(w, Tail(lines), add_line(order_data, line_data(w, Head(lines))))

\* if totals['revenue']: totals['margin_percent'] = margin / revenue * 100
order_margin_percent(order_data) ==
    IF order_data.totals.revenue # 0
       THEN [order_data EXCEPT !.totals.margin_percent =
                [num |-> order_data.totals.margin * 100, den |-> order_data.totals.revenue]]
       ELSE order_data

new_order_data(order) ==
    [order_id |-> order.id, order_name |-> order.name,
     customer |-> partner_name[order.partner_id], customer_id |-> order.partner_id,
     date_order |-> order.date_order, currency |-> order.currency,
     lines |-> <<>>,
     totals |-> [revenue |-> 0, cost |-> 0, margin |-> 0,
                 margin_percent |-> [num |-> 0, den |-> 1]]]

\* The order loop without the test that drops orders with no lines.
RECURSIVE process_orders_keep_empty(_, _, _)
process_orders_keep_empty(w, orders, profitability_data) ==
    IF orders = <<>> THEN profitability_data
    ELSE process_orders_keep_empty(w, Tail(orders),
             Append(profitability_data,
                    order_margin_percent(process_lines(w, Head(orders).order_line,
                                                       new_order_data(Head(orders))))))

\* for order in orders: ...; if order_data['lines']: profitability_data.append(order_data)
RECURSIVE process_orders(_, _, _)
process_orders(w, orders, profitability_data) ==
    IF orders = <<>> THEN profitability_data
    ELSE LET order == Head(orders)
             order_data == order_margin_percent(
                               process_lines(w, order.order_line, new_order_data(order)))
         IN  process_orders(w, Tail(orders),
                 IF order_data.lines # <<>> THEN Append(profitability_data, order_data)
                 ELSE profitability_data)

\* The computation without the no-orders guard.
_get_profitability_data_unguarded(w, store, fault) ==
    IF fault = "data" /\ search(store, _get_domain_filters(w)) # <<>>
       THEN Raise("Exception", <<"fault in upstream data">>)
       ELSE Return(process_orders(w, search(store, _get_domain_filters(w)), <<>>))

\* fault = "data": reading an order or a line raises while the orders are processed.
_get_profitability_data(w, store, fault) ==
    LET domain == _get_domain_filters(w)
        orders == search(store, domain)
    IN  IF orders = <<>> THEN Raise("UserError", NoOrdersMsg)
        ELSE IF fault = "data" THEN Raise("Exception", <<"fault in upstream data">>)
        ELSE Return(process_orders(w, orders, <<>>))

----------------------------------------------------------------------------
\* The wizard's operations. Each yields the wizard record after the call and
\* what the call returned or raised.

\* str(report_data): the text of the list; base64.b64encode(bytes).
str(x) == [str |-> x]
b64encode(x) == [b64 |-> x]
\* date_order.strftime('%Y-%m-%d'): the day, without the time.
strftime(dt) == [ymd |-> dt.day]

report_action(w, report_type, report_data) ==
    [type |-> "ir.actions.report",
     report_name |-> "sales_profitability.profitability_report",
     report_type |-> report_type,
     data |-> [report_data |-> report_data, wizard_id |-> w.id]]

generate_report(w, store, fault) ==
    LET r == _get_profitability_data(w, store, fault)
    IN  IF r.kind = "raise"
           THEN [wiz |-> w,
                 ret |-> Raise("UserError", <<"Error generating report: ">> \o r.msg)]
           ELSE [wiz |-> [w EXCEPT !.report_data = Value(str(r.value))],
                 ret |-> Return(report_action(w, "qweb-html", r.value))]

print_report(w, store, fault) ==
    LET r == _get_profitability_data(w, store, fault)
    IN  IF r.kind = "raise"
           THEN [wiz |-> w,
                 ret |-> Raise("UserError", <<"Error printing report: ">> \o r.msg)]
           ELSE [wiz |-> w,
                 ret |-> Return(report_action(w, "qweb-pdf", r.value))]

\* worksheet.write(row, col, value): the sheet is the function from the cells
\* written so far to their values.
write(sheet, row, col, v) ==
    [x \in (DOMAIN sheet) \cup {<<row, col>>} |-> IF x = <<row, col>> THEN v ELSE sheet[x]]

RECURSIVE write_row(_, _, _, _)
write_row(sheet, row, col, values) ==
    IF values = <<>> THEN sheet
    ELSE write_row(write(sheet, row, col, Head(values)), row, col + 1, Tail(values))

NoCells == [x \in {} |-> 0]
\* percent cells hold the fraction margin_percent / 100
percent_cell(p) == [num |-> p.num, den |-> p.den * 100]

summary_headers ==
    <<"Order #", "Customer", "Date", "Revenue", "Cost", "Margin", "Margin %", "Currency">>

\* for order_data in report_data: write the order's row, add to the totals, row += 1
RECURSIVE write_summary_rows(_, _)
write_summary_rows(st, report_data) ==
    IF report_data = <<>> THEN st
    ELSE LET order_data == Head(report_data)
             sheet == write_row(st.sheet, st.row, 0,
                         <<order_data.order_name, order_data.customer,
                           strftime(order_data.date_order),
                           order_data.totals.revenue, order_data.totals.cost,
                           order_data.totals.margin,
                           percent_cell(order_data.totals.margin_percent),
                           order_data.currency>>)
         IN  write_summary_rows(
                 [sheet |-> sheet, row |-> st.row + 1,
                  total_revenue |-> st.total_revenue + order_data.totals.revenue,
                  total_cost |-> st.total_cost + order_data.totals.cost,
                  total_margin |-> st.total_margin + order_data.totals.margin],
                 Tail(report_data))

\* The TOTAL row, one row below the row after the last order row.
write_totals(st) ==
    LET row == st.row + 1
        s0 == write(st.sheet, row, 0, "TOTAL")
        s3 == write(s0, row, 3, st.total_revenue)
        s4 == write(s3, row, 4, st.total_cost)
        s5 == write(s4, row, 5, st.total_margin)
    IN  IF st.total_revenue # 0
           THEN write(s5, row, 6, [num |-> st.total_margin, den |-> st.total_revenue])
           ELSE s5

summary_sheet(report_data) ==
    write_totals(write_summary_rows(
        [sheet |-> write_row(NoCells, 0, 0, summary_headers), row |-> 1,
         total_revenue |-> 0, total_cost |-> 0, total_margin |-> 0],
        report_data))

detail_headers ==
    <<"Order #", "Customer", "Product Code", "Product Name", "Category", "Quantity",
      "UoM", "Unit Price", "Revenue", "Cost", "Margin", "Margin %">>

RECURSIVE write_detail_lines(_, _, _, _)
write_detail_lines(sheet, detail_row, order_data, lines) ==
    IF lines = <<>> THEN [sheet |-> sheet, detail_row |-> detail_row]
    ELSE LET line == Head(lines)
         IN  write_detail_lines(
                 write_row(sheet, detail_row, 0,
                     <<order_data.order_name, order_data.customer, line.product_code,
                       line.product_name, line.category, line.quantity, line.uom,
                       line.unit_price, line.revenue, line.cost, line.margin,
                       percent_cell(line.margin_percent)>>),
                 detail_row + 1, order_data, Tail(lines))

RECURSIVE write_detail_rows(_, _)
write_detail_rows(st, report_data) ==
    IF report_data = <<>> THEN st.sheet
    ELSE write_detail_rows(
             write_detail_lines(st.sheet, st.detail_row, Head(report_data),
                                Head(report_data).lines),
             Tail(report_data))

detail_sheet(report_data) ==
    write_detail_rows(
        [sheet |-> write_row(NoCells, 0, 0, detail_headers), detail_row |-> 1],
        report_data)

\* The workbook after workbook.close().
workbook(w, report_data) ==
    [closed |-> TRUE,
     sheets |-> IF w.show_details
                   THEN [Summary |-> summary_sheet(report_data),
                         Details |-> Value(detail_sheet(report_data))]
                   ELSE [Summary |-> summary_sheet(report_data), Details |-> Unset]]

\* The Presentation Formatter the report template applies to the data of a
\* report action: the rows grouped by the wizard's group_by, each with summed
\* revenue, cost and margin and a zero-guarded margin percent.
group_items(report_data, group_by) ==
    IF group_by \in {"order", "customer"}
       THEN {[key |-> IF group_by = "order" THEN report_data[k].order_id
                      ELSE report_data[k].customer_id,
              at |-> <<k, 0>>,
              revenue |-> report_data[k].totals.revenue,
              cost |-> report_data[k].totals.cost,
              margin |-> report_data[k].totals.margin] : k \in 1..Len(report_data)}
       ELSE UNION {{[key |-> IF group_by = "category" THEN report_data[k].lines[j].category
                             ELSE report_data[k].lines[j].product_name,
                     at |-> <<k, j>>,
                     revenue |-> report_data[k].lines[j].revenue,
                     cost |-> report_data[k].lines[j].cost,
                     margin |-> report_data[k].lines[j].margin] :
                        j \in 1..Len(report_data[k].lines)} : k \in 1..Len(report_data)}

\* The grouping with each group holding its last item only.
profitability_report_last_item(report_data, group_by) ==
    LET items == group_items(report_data, group_by)
    IN  [key \in {it.key : it \in items} |->
            LET mine == {it \in items : it.key = key}
                last == CHOOSE it \in mine :
                            \A o \in mine : o.at[1] < it.at[1]
                                            \/ (o.at[1] = it.at[1] /\ o.at[2] <= it.at[2])
            IN  [revenue |-> last.revenue, cost |-> last.cost, margin |-> last.margin,
                 margin_percent |-> line_margin_percent(last.margin, last.revenue)]]

profitability_report(report_data, group_by) ==
    LET items == group_items(report_data, group_by)
    IN  [key \in {it.key : it \in items} |->
            LET mine == {it \in items : it.key = key}
                revenue == FnSum([it \in mine |-> it.revenue])
                cost == FnSum([it \in mine |-> it.cost])
                margin == FnSum([it \in mine |-> it.margin])
            IN  [revenue |-> revenue, cost |-> cost, margin |-> margin,
                 margin_percent |-> IF revenue # 0 THEN [num |-> margin * 100, den |-> revenue]
                                    ELSE [num |-> 0, den |-> 1]]]

excel_filename(w) == <<"Sales_Profitability_", w.date_from, "_", w.date_to, ".xlsx">>

\* The export with the filename stored before the workbook is built.
export_excel_filename_first(w, store, fault) ==
    LET r == _get_profitability_data(w, store, fault)
        filename == excel_filename(w)
        named == [w EXCEPT !.excel_filename = Value(filename)]
    IN  IF r.kind = "raise"
           THEN [wiz |-> w,
                 ret |-> Raise("UserError", <<"Error creating Excel file: ">> \o r.msg)]
        ELSE IF fault \in {"write", "close"}
           THEN [wiz |-> named,
                 ret |-> Raise("UserError", <<"Error creating Excel file: ", "fault">>)]
        ELSE [wiz |-> [named EXCEPT !.excel_file = Value(b64encode(workbook(w, r.value)))],
              ret |-> Return([type |-> "ir.actions.act_url",
                              url |-> [model |-> "sales.profitability.wizard", id |-> w.id,
                                       field |-> "excel_file", filename |-> filename],
                              target |-> "self"])]

\* fault = "write": a worksheet / format call raises while the workbook is built;
\* fault = "close": workbook.close() raises.
export_excel(w, store, fault) ==
    LET r == _get_profitability_data(w, store, fault)
        filename == excel_filename(w)
    IN  IF r.kind = "raise"
           THEN [wiz |-> w,
                 ret |-> Raise("UserError", <<"Error creating Excel file: ">> \o r.msg)]
        ELSE IF fault = "write"
           THEN [wiz |-> w,
                 ret |-> Raise("UserError", <<"Error creating Excel file: ", "fault in write">>)]
        ELSE IF fault = "close"
           THEN [wiz |-> w,
                 ret |-> Raise("UserError", <<"Error creating Excel file: ", "fault in close">>)]
        ELSE [wiz |-> [w EXCEPT !.excel_file = Value(b64encode(workbook(w, r.value))),
                                !.excel_filename = Value(filename)],
              ret |-> Return([type |-> "ir.actions.act_url",
                              url |-> [model |-> "sales.profitability.wizard", id |-> w.id,
                                       field |-> "excel_file", filename |-> filename],
                              target |-> "self"])]

----------------------------------------------------------------------------
\* Inputs.

\* Order lines of each kind the aggregator tells apart.
DeliveryLine == Line(1, TRUE, 1, 10, 10, NoLanded, <<>>)
ServiceLine == Line(2, FALSE, 1, 30, 33, NoLanded, <<>>)
LampLine ==
    Line(3, FALSE, 1, 50, 50, NoLanded,
         <<[state |-> "done", stock_valuation_layer_ids |-> <<-3>>]>>)
FreeLine == Line(3, FALSE, 1, 0, 0, Landed(5), <<>>)
AggLines == {PlainLine, DeliveryLine, ServiceLine, LampLine, FreeLine}

GroupBys == {"order", "customer", "category", "product"}

\* Cost resolver inputs.
CostLines(n, t) ==
    {Line(p, FALSE, q, 0, 0, l, m) :
        p \in ProductIds, q \in Qtys, l \in LandedValues, m \in MoveLists(n, t)}

\* Stores of at most n matching orders holding at most t lines in all.
AggStores(n, t) ==
    {Stored([i \in 1..Len(ll) |-> Order(1, [day |-> 1, time |-> 0], "sale", 1, ll[i])]) :
        ll \in UNION {Lists(AggLines, k, t) : k \in 0..n}}

FilterOrders ==
    {Order(p, dt, st, c, <<PlainLine>>) :
        p \in Partners, dt \in DateTimes, st \in OrderStates, c \in Companies}

FilterStores(n) == {Stored(s) : s \in SeqsUpTo(FilterOrders, n)}

WizardOrders ==
    {Order(1, [day |-> 1, time |-> 0], "draft", 1, <<PlainLine>>)} \cup
    {Order(p, [day |-> 1, time |-> 0], "sale", 1, ls) :
        p \in Partners, ls \in {<<PlainLine>>, <<FreeLine>>, <<ServiceLine, LampLine>>}}

WizardStores(n) == {Stored(s) : s \in SeqsUpTo(WizardOrders, n)}

----------------------------------------------------------------------------
\* Specifications.

InitCost ==
    /\ sale_order \in {Stored(<<Order(1, [day |-> 1, time |-> 0], "sale", 1, <<l>>)>>) :
                          l \in CostLines(MaxMoves, MaxLayers)}
    /\ wiz = Wizard(1, 2, {}, {}, 1, "order", TRUE, TRUE)
    /\ ret = NoCall

calculate_order_costs ==
    /\ ret' = Return(_calculate_order_costs(sale_order[1].order_line[1]))
    /\ UNCHANGED <<sale_order, wiz>>

SpecCost == InitCost /\ [][calculate_order_costs]_vars

InitFilter ==
    /\ sale_order \in FilterStores(MaxFilterOrders)
    /\ wiz \in {Wizard(df, dt, ps, {}, c, "order", TRUE, TRUE) :
                   df \in Days, dt \in Days, ps \in SUBSET Partners, c \in {0} \cup Companies}
    /\ ret = NoCall

InitAgg ==
    /\ sale_order \in AggStores(MaxOrders, MaxLines)
    /\ wiz \in {Wizard(1, 2, {}, cs, 1, "order", TRUE, t) :
                   cs \in SUBSET Categs, t \in BOOLEAN}
    /\ ret = NoCall

get_profitability_data ==
    /\ ret' = _get_profitability_data(wiz, sale_order, "none")
    /\ UNCHANGED <<sale_order, wiz>>

SpecFilter == InitFilter /\ [][get_profitability_data]_vars
SpecAgg == InitAgg /\ [][get_profitability_data]_vars

Init ==
    /\ sale_order \in WizardStores(MaxOrders)
    /\ wiz \in {Wizard(1, 2, {}, {}, 1, g, d, TRUE) : g \in GroupBys, d \in BOOLEAN}
    /\ ret = NoCall

action_generate_report ==
    \E fault \in {"none", "data"} :
        LET out == generate_report(wiz, sale_order, fault)
        IN  wiz' = out.wiz /\ ret' = out.ret /\ UNCHANGED sale_order

action_export_excel ==
    \E fault \in {"none", "data", "write", "close"} :
        LET out == export_excel(wiz, sale_order, fault)
        IN  wiz' = out.wiz /\ ret' = out.ret /\ UNCHANGED sale_order

action_print_report ==
    \E fault \in {"none", "data"} :
        LET out == print_report(wiz, sale_order, fault)
        IN  wiz' = out.wiz /\ ret' = out.ret /\ UNCHANGED sale_order

Next == action_generate_report \/ action_export_excel \/ action_print_report

Spec == Init /\ [][Next]_vars

----------------------------------------------------------------------------
\* Properties.

\* The criteria's order predicate, at the granularity of days.
Qualifies(o) ==
    /\ o.state \in {"sale", "done"}
    /\ wiz.date_from <= o.date_order.day /\ o.date_order.day <= wiz.date_to
    /\ o.company_id = wiz.company_id
    /\ (wiz.partner_ids # {} => o.partner_id \in wiz.partner_ids)

Qualifying == {i \in 1..Len(sale_order) : Qualifies(sale_order[i])}

\* A line that is neither a delivery line nor a service-type product.
Eligible(l) == ~l.is_delivery /\ product[l.product_id].type # "service"
\* The lines of store order i the criteria retain.
Kept(i) ==
    {j \in 1..Len(sale_order[i].order_line) :
        LET l == sale_order[i].order_line[j]
        IN  /\ Eligible(l)
            /\ (wiz.category_ids = {} \/ product[l.product_id].categ_id \in wiz.category_ids)}
Revenue(l) == IF wiz.include_taxes THEN l.price_total ELSE l.price_subtotal

\* C5: the cost of a line is standard cost x quantity, plus its landed-cost
\* value (zero when the field is absent or empty), plus the valuation-layer
\* values of exactly its moves in state 'done', negative values included.
C5_CostComponents ==
    ret.kind = "return" =>
        LET l == sale_order[1].order_line[1]
            done == {i \in 1..Len(l.move_ids) : l.move_ids[i].state = "done"}
            layers(i) == l.move_ids[i].stock_valuation_layer_ids
        IN  ret.value =
                product[l.product_id].standard_price * l.product_uom_qty
                + (IF l.landed_cost_value = Landed(5) THEN 5 ELSE 0)
                + FnSum([i \in done |-> FnSum([j \in 1..Len(layers(i)) |-> layers(i)[j]])])

\* C5 happens: a done move with a negative layer next to a cancelled move with
\* a layer, on a line whose landed-cost field is empty; the cost is below the base.
C5_Witness ==
    /\ ret.kind = "return"
    /\ LET l == sale_order[1].order_line[1]
       IN  /\ l.landed_cost_value = EmptyLanded
           /\ Len(l.move_ids) = 2
           /\ l.move_ids[1] = [state |-> "cancel", stock_valuation_layer_ids |-> <<4>>]
           /\ l.move_ids[2] = [state |-> "done", stock_valuation_layer_ids |-> <<-3>>]
           /\ ret.value = product[l.product_id].standard_price * l.product_uom_qty - 3

\* C7: the orders a run processes are exactly the store's orders in state
\* sale/done, dated within [date_from, date_to] (both days inclusive), of the
\* criteria's company and, when customers are given, of one of them.
C7_SelectedOrders ==
    ret.kind # "none" =>
        IF Qualifying = {} THEN ret.kind = "raise"
        ELSE /\ ret.kind = "return"
             /\ {ret.value[k].order_id : k \in 1..Len(ret.value)} = Qualifying
             /\ Len(ret.value) = Cardinality(Qualifying)

\* C7 happens: an order dated at the end of the day date_to, in state done,
\* of a listed customer, is processed.
C7_Witness ==
    /\ ret.kind = "return" /\ Len(ret.value) = 1
    /\ sale_order[1].date_order = [day |-> wiz.date_to, time |-> EndOfDay]
    /\ sale_order[1].state = "done"
    /\ wiz.date_from = wiz.date_to
    /\ wiz.partner_ids = {sale_order[1].partner_id}

\* C1: each order's totals.revenue, .cost and .margin are the sums of that
\* field over the lines listed in the order, which are the retained lines only.
C1_TotalsAreLineSums ==
    ret.kind = "return" =>
        \A k \in 1..Len(ret.value) :
            LET od == ret.value[k]
                kept == Kept(od.order_id)
                l(j) == sale_order[od.order_id].order_line[j]
            IN  /\ od.totals.revenue = FnSum([j \in 1..Len(od.lines) |-> od.lines[j].revenue])
                /\ od.totals.cost = FnSum([j \in 1..Len(od.lines) |-> od.lines[j].cost])
                /\ od.totals.margin = FnSum([j \in 1..Len(od.lines) |-> od.lines[j].margin])
                /\ Len(od.lines) = Cardinality(kept)
                /\ od.totals.revenue = FnSum([j \in kept |-> Revenue(l(j))])

\* C1 happens: an order with two retained lines and a skipped one.
C1_Witness ==
    /\ ret.kind = "return"
    /\ \E k \in 1..Len(ret.value) :
          /\ Len(ret.value[k].lines) = 2
          /\ Len(sale_order[ret.value[k].order_id].order_line) = 3
          /\ ret.value[k].lines[1].revenue # 0 /\ ret.value[k].lines[2].cost # 0

\* C3: every order of the result has a retained line, and the result lists
\* exactly the matching orders that have one, in the store's retrieval order.
C3_NoEmptyOrders ==
    ret.kind = "return" =>
        /\ \A k \in 1..Len(ret.value) : ret.value[k].lines # <<>>
        /\ {ret.value[k].order_id : k \in 1..Len(ret.value)}
               = {i \in Qualifying : Kept(i) # {}}
        /\ \A k1, k2 \in 1..Len(ret.value) :
               k1 < k2 => ret.value[k1].order_id < ret.value[k2].order_id

\* C3 happens: the first order has only a delivery and a service line and is
\* dropped, the second is kept.
C3_Witness ==
    /\ ret.kind = "return" /\ Len(sale_order) = 2
    /\ sale_order[1].order_line = <<DeliveryLine, ServiceLine>>
    /\ Len(ret.value) = 1 /\ ret.value[1].order_id = 2

\* C6: with a category set S every line of the result has its category in S;
\* with no category set every line that is neither a delivery line nor a
\* service is retained.
C6_CategoryFilter ==
    ret.kind = "return" =>
        /\ wiz.category_ids # {} =>
               \A k \in 1..Len(ret.value) : \A j \in 1..Len(ret.value[k].lines) :
                   ret.value[k].lines[j].category \in {categ_name[c] : c \in wiz.category_ids}
        /\ wiz.category_ids = {} =>
               \A i \in Qualifying :
                   LET eligible == {j \in 1..Len(sale_order[i].order_line) :
                                        Eligible(sale_order[i].order_line[j])}
                   IN  eligible # {} =>
                           \E k \in 1..Len(ret.value) :
                               /\ ret.value[k].order_id = i
                               /\ Len(ret.value[k].lines) = Cardinality(eligible)

\* C6 happens: the filter {category 2} drops a storable line of category 1
\* and keeps one of category 2.
C6_Witness ==
    /\ ret.kind = "return" /\ wiz.category_ids = {2}
    /\ Len(sale_order) >= 1 /\ sale_order[1].order_line = <<PlainLine, LampLine>>
    /\ Len(ret.value[1].lines) = 1 /\ ret.value[1].lines[1].category = categ_name[2]

\* A fraction that is a number (no division by zero) and equals n / d * 100.
IsPercentOf(p, n, d) == p.den # 0 /\ p.num * d = n * 100 * p.den
IsZeroPercent(p) == p.den # 0 /\ p.num = 0

\* C9: for every retained line and every order's totals, margin is
\* revenue - cost, and margin_percent is 0 when revenue is 0 and
\* margin / revenue x 100 otherwise; nothing is divided by a zero revenue.
C9_MarginPercent ==
    ret.kind = "return" =>
        \A k \in 1..Len(ret.value) :
            LET t == ret.value[k].totals
            IN  /\ t.margin = t.revenue - t.cost
                /\ IF t.revenue = 0 THEN IsZeroPercent(t.margin_percent)
                   ELSE IsPercentOf(t.margin_percent, t.revenue - t.cost, t.revenue)
                /\ \A j \in 1..Len(ret.value[k].lines) :
                       LET ld == ret.value[k].lines[j]
                       IN  /\ ld.margin = ld.revenue - ld.cost
                           /\ IF ld.revenue = 0 THEN IsZeroPercent(ld.margin_percent)
                              ELSE IsPercentOf(ld.margin_percent,
                                               ld.revenue - ld.cost, ld.revenue)

\* C9 happens: an order whose only retained line has revenue 0 and cost 5.
C9_Witness ==
    /\ ret.kind = "return"
    /\ \E k \in 1..Len(ret.value) :
          /\ ret.value[k].totals.revenue = 0 /\ ret.value[k].totals.cost = 5
          /\ ret.value[k].lines[1].revenue = 0 /\ ret.value[k].lines[1].cost = 5
          /\ ret.value[k].lines[1].margin_percent.num = 0

\* C2: when the criteria match no order, each operation fails with the
\* "no sales orders found" UserError, returns no action and writes none of
\* report_data, excel_file and excel_filename.
C2_NoMatchFails ==
    (ret.kind # "none" /\ Qualifying = {}) =>
        /\ ret.kind = "raise" /\ ret.exc = "UserError"
        /\ ret.msg[Len(ret.msg)] = "No sales orders found for the selected criteria."
        /\ wiz.excel_file = Unset /\ wiz.excel_filename = Unset
        /\ wiz.report_data = Unset

\* C2 happens: the store holds orders, none of them confirmed, and the
\* export has been called.
C2_Witness ==
    /\ Len(sale_order) = 2 /\ Qualifying = {}
    /\ ret.kind = "raise" /\ ret.msg[1] = "Error creating Excel file: "

\* C4: grouped by customer, the report has one row per customer of the
\* report data, with the sums of the revenue, cost and margin of that
\* customer's orders.
C4_CustomerRows ==
    (ret.kind = "return" /\ ret.value.type = "ir.actions.report"
        /\ wiz.group_by = "customer") =>
        LET data == ret.value.data.report_data
            rows == profitability_report(data, wiz.group_by)
            of(c, f(_)) == FnSum([k \in 1..Len(data) |->
                                     IF data[k].customer_id = c THEN f(data[k].totals) ELSE 0])
            rev(t) == t.revenue
            cst(t) == t.cost
            mrg(t) == t.margin
        IN  /\ DOMAIN rows = {data[k].customer_id : k \in 1..Len(data)}
            /\ \A c \in DOMAIN rows :
                   /\ rows[c].revenue = of(c, rev)
                   /\ rows[c].cost = of(c, cst)
                   /\ rows[c].margin = of(c, mrg)

\* C4 happens: two orders of one customer, each with revenue, in a report
\* grouped by customer.
C4_Witness ==
    /\ ret.kind = "return" /\ ret.value.type = "ir.actions.report"
    /\ wiz.group_by = "customer"
    /\ LET data == ret.value.data.report_data
       IN  /\ Len(data) = 2 /\ data[1].customer_id = data[2].customer_id
           /\ data[1].totals.revenue = 110 /\ data[2].totals.revenue = 50
           /\ profitability_report(data, "customer")[data[1].customer_id].revenue = 160

\* The summary sheet of the stored file, and the Report Result it was built from.
SummaryCells == wiz.excel_file.value.b64.sheets.Summary
ReportResult == _get_profitability_data(wiz, sale_order, "none").value
TotalRow == Len(ReportResult) + 2

\* one order row per order of the Report Result, and no other row
C8_OrderRows ==
    /\ {x[1] : x \in DOMAIN SummaryCells} = (0..Len(ReportResult)) \cup {TotalRow}
    /\ \A i \in 1..Len(ReportResult) :
           /\ SummaryCells[<<i, 0>>] = ReportResult[i].order_name
           /\ SummaryCells[<<i, 3>>] = ReportResult[i].totals.revenue
           /\ SummaryCells[<<i, 4>>] = ReportResult[i].totals.cost
           /\ SummaryCells[<<i, 5>>] = ReportResult[i].totals.margin

\* the TOTAL row's money cells are the sums of the order rows' cells
C8_TotalSums ==
    \A c \in {3, 4, 5} :
        /\ <<TotalRow, c>> \in DOMAIN SummaryCells
        /\ SummaryCells[<<TotalRow, c>>]
               = FnSum([i \in 1..Len(ReportResult) |-> SummaryCells[<<i, c>>]])

\* the TOTAL row's margin-percent cell: margin / revenue, or 0 at revenue 0
C8_TotalPercent ==
    /\ <<TotalRow, 6>> \in DOMAIN SummaryCells
    /\ LET p == SummaryCells[<<TotalRow, 6>>]
           revenue == SummaryCells[<<TotalRow, 3>>]
           margin == SummaryCells[<<TotalRow, 5>>]
       IN  IF revenue # 0 THEN p.den # 0 /\ p.num * revenue = margin * p.den
           ELSE IsZeroPercent(p)

\* C8: in the exported summary sheet there is one order row per order of the
\* Report Result, the TOTAL row's revenue, cost and margin are the sums of the
\* order rows' cells, and its margin-percent cell is total margin / total
\* revenue, or 0 when the total revenue is zero.
C8_TotalRow ==
    wiz.excel_file.set => C8_OrderRows /\ C8_TotalSums /\ C8_TotalPercent

\* C10: a call that fails leaves report_data, excel_file and excel_filename as
\* they were; excel_file and excel_filename change only together, in an export
\* that returns its download action and stores a closed workbook; report_data
\* changes only in a report generation that returns the data it stored.
C10_FailureKeepsFields ==
    [][/\ ret'.kind = "raise" =>
              /\ wiz'.report_data = wiz.report_data
              /\ wiz'.excel_file = wiz.excel_file
              /\ wiz'.excel_filename = wiz.excel_filename
       /\ (wiz'.excel_file # wiz.excel_file \/ wiz'.excel_filename # wiz.excel_filename) =>
              /\ ret'.kind = "return" /\ ret'.value.type = "ir.actions.act_url"
              /\ wiz'.excel_file.set /\ wiz'.excel_filename.set
              /\ wiz'.excel_file.value.b64.closed
              /\ ret'.value.url.filename = wiz'.excel_filename.value
       /\ wiz'.report_data # wiz.report_data =>
              /\ ret'.kind = "return" /\ ret'.value.type = "ir.actions.report"
              /\ wiz'.report_data = Value(str(ret'.value.data.report_data))
      ]_vars

\* C10 happens: after a report and an export have stored their results, an
\* export fails while the workbook is closed, and the results are still there.
C10_Witness ==
    /\ ret.kind = "raise"
    /\ ret.msg = <<"Error creating Excel file: ", "fault in close">>
    /\ wiz.report_data.set /\ wiz.excel_file.set /\ wiz.excel_filename.set

====
